---- MODULE Spec2Model ----
(***************************************************************************)
(* A model of bakingcake: the ticker resolver (interest.py and utils.py    *)
(* get_token_info), load_holdings, Portfolio, calculate_delta,             *)
(* get_volatility and generate_delta_df.                                   *)
(*                                                                         *)
(* Python strings are sequences of one-character strings, so that          *)
(* str.lower() and the substring operator `in` are computed, not assumed.  *)
(* A Python exception is an outcome of the operation: a field `raised`     *)
(* that names the exception, "" when the operation returned.               *)
(***************************************************************************)
EXTENDS Integers, Sequences, FiniteSets, TLC

VARIABLES
    COIN_LIST,        \* the catalog snapshot, a sequence of [symbol, id]
    ticker,           \* get_token_info: the argument
    variant,          \* "interest" or "utils": which module's get_token_info
    rpc,              \* "call" before the call, "done" after it
    token_list,       \* get_token_info: the local token_list
    token_info,       \* get_token_info: <<>> for {}, <<entry>> otherwise
    success,          \* get_token_info: the second component of the result
    raised,           \* get_token_info: "" or the exception that escaped
    calls,            \* number of completed calls with these arguments
    prev,             \* the result of the previous call, <<>> before any
    holdings,         \* load_holdings: holdings["holdings"]
    h_i,              \* load_holdings: the loop index (0-based)
    h_pc,             \* load_holdings: "loop", "return" or "raise"
    h_err,            \* load_holdings: the exception that escaped
    lookups,          \* load_holdings: the ids passed to CG_API.get_price
    p_pc,             \* Portfolio: "new" or "built"
    p_holdings,       \* Portfolio.holdings
    portfolio_total,  \* Portfolio.portfolio_total
    portfolio_yeild,  \* Portfolio.portfolio_yeild (the attribute's spelling)
    mutations,        \* changes made to the holdings list since __init__
    df,               \* calculate_delta: the statement rows
    kpi,              \* calculate_delta: the column
    period,           \* calculate_delta: "annual", "quarterly" or another
    dtype,            \* the dtype of the statement columns
    d_pc,             \* calculate_delta: "call" or "done"
    growth_rate,      \* calculate_delta: the outcome
    price_action_df,  \* get_volatility: the observations
    v_pc,             \* get_volatility: "call" or "done"
    vol_df,           \* get_volatility: the outcome
    ticker_list,      \* generate_delta_df: the argument
    g_i,              \* generate_delta_df: tickers consumed by the for loop
    g_pc,             \* generate_delta_df: "loop", "return" or "raise"
    g_err,            \* generate_delta_df: the exception that escaped
    delta_df          \* generate_delta_df: the accumulated rows

rvars == <<COIN_LIST, ticker, variant, rpc, token_list, token_info, success,
           raised, calls, prev>>
hvars == <<holdings, h_i, h_pc, h_err, lookups>>
pvars == <<p_pc, p_holdings, portfolio_total, portfolio_yeild, mutations>>
dvars == <<df, kpi, period, dtype, d_pc, growth_rate>>
vvars == <<price_action_df, v_pc, vol_df>>
gvars == <<ticker_list, g_i, g_pc, g_err, delta_df>>
vars == <<rvars, hvars, pvars, dvars, vvars, gvars>>

(***************************************************************************)
(* Bounds.                                                                 *)
(***************************************************************************)
MaxCatalog == 3       \* entries in COIN_LIST
MaxCalls == 2         \* repeated calls of get_token_info

(***************************************************************************)
(* Strings.                                                                *)
(***************************************************************************)
SeqsUpTo(S, n) == UNION {[1..k -> S] : k \in 0..n}

\* str.lower() on the letters the model uses
LowerChar(c) ==
    CASE c = "U" -> "u"
      [] c = "N" -> "n"
      [] c = "B" -> "b"
      [] OTHER -> c

Lower(s) == [k \in 1..Len(s) |-> LowerChar(s[k])]

\* Python's `sub in s` on strings
Contains(sub, s) ==
    \E k \in 0..(Len(s) - Len(sub)) : SubSeq(s, k + 1, k + Len(sub)) = sub

TOKEN == <<"t", "o", "k", "e", "n">>
GOVERNANCE == <<"g", "o", "v", "e", "r", "n", "a", "n", "c", "e">>
HYPHEN == <<"-">>

\* The ids and symbols the catalogs are drawn from.
Id_uni == <<"u", "n", "i">>
Id_a_token == <<"a", "-">> \o TOKEN
Id_tokens == TOKEN \o <<"s">>
Id_governance_a == GOVERNANCE \o <<"-", "a">>
Id_a_b == <<"a", "-", "b">>
IdPool == {Id_uni, Id_a_token, Id_tokens, Id_governance_a, Id_a_b}

SymbolPool == {<<"u", "n">>, <<"U", "N">>}
TickerPool == {<<"u", "n">>, <<"U", "n">>, <<"b">>}
Variants == {"interest", "utils"}

Entries == [symbol : SymbolPool, id : IdPool]
Catalogs == SeqsUpTo(Entries, MaxCatalog)

(***************************************************************************)
(* get_token_info                                                          *)
(***************************************************************************)
\* the filter's condition without the call of lower()
SymbolMatchesAsWritten(t, entry) == t = entry.symbol

\* interest.py:51, utils.py:228: the filter's condition
SymbolMatches(t, entry) == Lower(t) = entry.symbol

\* interest.py:51, utils.py:228: the list comprehension over COIN_LIST
TokenList(t, catalog) == SelectSeq(catalog, LAMBDA e : SymbolMatches(t, e))

\* the condition under which the scan steps to the next candidate
ExcludedNegated(v, id) ==
    IF v = "interest"
    THEN ~Contains(TOKEN, id)
    ELSE ~(~Contains(GOVERNANCE, id) /\ Contains(HYPHEN, id))

Excluded(v, id) ==
    IF v = "interest"
    THEN Contains(TOKEN, id)
    ELSE ~Contains(GOVERNANCE, id) /\ Contains(HYPHEN, id)

\* the `while True` loop from index i (0-based); token_list[i] with
\* i = len(token_list) raises IndexError
RECURSIVE Scan(_, _, _)
Scan(tl, i, v) ==
    IF i >= Len(tl)
    THEN [token_info |-> IF i = 0 THEN <<>> ELSE <<tl[i]>>,
          raised |-> "IndexError"]
    ELSE IF Excluded(v, tl[i + 1].id)
         THEN Scan(tl, i + 1, v)
         ELSE [token_info |-> <<tl[i + 1]>>, raised |-> ""]

\* get_token_info without the len(token_list) == 1 branch
GetTokenInfoAlwaysScan(t, catalog, v) ==
    LET tl == TokenList(t, catalog) IN
    IF tl = <<>>
    THEN [token_list |-> tl, token_info |-> <<>>, success |-> FALSE,
          raised |-> ""]
    ELSE LET s == Scan(tl, 0, v) IN
         [token_list |-> tl, token_info |-> s.token_info,
          success |-> TRUE, raised |-> s.raised]

GetTokenInfo(t, catalog, v) ==
    LET tl == TokenList(t, catalog) IN
    IF tl = <<>>
    THEN [token_list |-> tl, token_info |-> <<>>, success |-> FALSE,
          raised |-> ""]
    ELSE IF Len(tl) = 1
         THEN [token_list |-> tl, token_info |-> <<tl[1]>>,
               success |-> TRUE, raised |-> ""]
         ELSE LET s == Scan(tl, 0, v) IN
              [token_list |-> tl, token_info |-> s.token_info,
               success |-> TRUE, raised |-> s.raised]

ResolverIdle ==
    /\ COIN_LIST = <<>>
    /\ ticker = <<>>
    /\ variant = "interest"
    /\ rpc = "idle"
    /\ token_list = <<>>
    /\ token_info = <<>>
    /\ success = FALSE
    /\ raised = ""
    /\ calls = 0
    /\ prev = <<>>

\* one call of get_token_info(ticker)
CallGetTokenInfo ==
    /\ rpc = "call"
    /\ LET r == GetTokenInfo(ticker, COIN_LIST, variant) IN
       /\ token_list' = r.token_list
       /\ token_info' = r.token_info
       /\ success' = r.success
       /\ raised' = r.raised
    /\ prev' = IF calls = 0 THEN <<>> ELSE <<[token_info |-> token_info,
                                             success |-> success,
                                             raised |-> raised]>>
    /\ calls' = calls + 1
    /\ rpc' = "done"
    /\ UNCHANGED <<COIN_LIST, ticker, variant>>
    /\ UNCHANGED <<hvars, pvars, dvars, vvars, gvars>>

\* the caller calls again with the same ticker and the same catalog
CallAgain ==
    /\ rpc = "done"
    /\ calls < MaxCalls
    /\ rpc' = "call"
    /\ UNCHANGED <<COIN_LIST, ticker, variant, token_list, token_info,
                   success, raised, calls, prev>>
    /\ UNCHANGED <<hvars, pvars, dvars, vvars, gvars>>

(***************************************************************************)
(* load_holdings                                                           *)
(***************************************************************************)
MaxHoldCatalog == 2   \* entries in COIN_LIST when load_holdings runs
MaxHoldings == 2      \* holdings in the holdings file

Quantities == {0, 2}
Prices == {1, 3}
HoldingTickers == {<<"u", "n">>, <<"b">>}

\* a holding as yaml.safe_load gives it: the keys ticker and quantity
NewHolding(t, q) ==
    [ticker |-> t, quantity |-> q, keys |-> {"ticker", "quantity"},
     id |-> <<>>, price |-> 0, total |-> 0]

HoldingInputs ==
    SeqsUpTo({NewHolding(t, q) : t \in HoldingTickers, q \in Quantities},
             MaxHoldings)

\* token_info.get("id"): no exception when the key is missing
SubscriptIdOrNone(info) ==
    IF info = <<>>
    THEN [raised |-> "", value |-> <<>>]
    ELSE [raised |-> "", value |-> info[1].id]

\* interest.py:28: token_info["id"], a KeyError on the empty dict
SubscriptId(info) ==
    IF info = <<>>
    THEN [raised |-> "KeyError:id", value |-> <<>>]
    ELSE [raised |-> "", value |-> info[1].id]

HoldingsIdle ==
    /\ holdings = <<>>
    /\ h_i = 0
    /\ h_pc = "idle"
    /\ h_err = ""
    /\ lookups = <<>>

\* interest.py:27-34: one iteration of the loop; the price provider's answer
\* either has no entry for the id (a KeyError) or holds a quote
LoadStep ==
    /\ h_pc = "loop"
    /\ h_i < Len(holdings)
    /\ LET k == h_i + 1
           r == GetTokenInfo(holdings[k].ticker, COIN_LIST, "interest")
           sub == SubscriptId(r.token_info)
       IN
       IF r.raised # ""
       THEN /\ h_pc' = "raise"
            /\ h_err' = r.raised
            /\ UNCHANGED <<holdings, h_i, lookups>>
       ELSE IF sub.raised # ""
       THEN /\ h_pc' = "raise"
            /\ h_err' = sub.raised
            /\ UNCHANGED <<holdings, h_i, lookups>>
       ELSE /\ lookups' = Append(lookups, sub.value)
            /\ \/ /\ holdings' =
                       [holdings EXCEPT ![k].id = sub.value,
                                        ![k].keys = @ \cup {"id"}]
                  /\ h_pc' = "raise"
                  /\ h_err' = "KeyError:quote"
                  /\ UNCHANGED h_i
               \/ \E quote \in Prices :
                  /\ holdings' =
                       [holdings EXCEPT
                          ![k].id = sub.value,
                          ![k].price = quote,
                          ![k].total = quote * holdings[k].quantity,
                          ![k].keys = @ \cup {"id", "price", "total"}]
                  /\ h_i' = h_i + 1
                  /\ UNCHANGED <<h_pc, h_err>>
    /\ UNCHANGED <<rvars, pvars, dvars, vvars, gvars>>

\* interest.py:36: the loop is exhausted and holdings is returned
LoadReturn ==
    /\ h_pc = "loop"
    /\ h_i = Len(holdings)
    /\ h_pc' = "return"
    /\ UNCHANGED <<holdings, h_i, h_err, lookups>>
    /\ UNCHANGED <<rvars, pvars, dvars, vvars, gvars>>

(***************************************************************************)
(* Portfolio                                                               *)
(***************************************************************************)
MaxPortHoldings == 2  \* holdings in a portfolio
MaxAmount == 1        \* a holding's total and annual_yield_usd
MaxMutations == 2     \* changes to the holdings list after construction
DaysPerYear == 365

HoldingObjects == [total : 0..MaxAmount, annual_yield_usd : 0..MaxAmount]

\* a float quotient, kept exact
Ratio(n, d) == [num |-> n, den |-> d]

RECURSIVE SumTotal(_)
SumTotal(hs) == IF hs = <<>> THEN 0 ELSE hs[1].total + SumTotal(Tail(hs))

RECURSIVE SumAnnualYield(_)
SumAnnualYield(hs) ==
    IF hs = <<>> THEN 0 ELSE hs[1].annual_yield_usd + SumAnnualYield(Tail(hs))

\* the yield with the year's sum taken over total instead
calculate_portfolio_yield_of_totals(holdings_list) ==
    [one_year_yield |-> SumTotal(holdings_list),
     one_day_yield |-> Ratio(SumTotal(holdings_list), DaysPerYear)]

calculate_portfolio_yield(holdings_list) ==
    [one_year_yield |-> SumAnnualYield(holdings_list),
     one_day_yield |-> Ratio(SumAnnualYield(holdings_list), DaysPerYear)]

PortfolioIdle ==
    /\ p_pc = "idle"
    /\ p_holdings = <<>>
    /\ portfolio_total = 0
    /\ portfolio_yeild = calculate_portfolio_yield(<<>>)
    /\ mutations = 0

\* Portfolio.__init__(holdings)
Portfolio_init ==
    /\ p_pc = "new"
    /\ p_pc' = "built"
    /\ portfolio_total' = SumTotal(p_holdings)
    /\ portfolio_yeild' = calculate_portfolio_yield(p_holdings)
    /\ UNCHANGED <<p_holdings, mutations>>
    /\ UNCHANGED <<rvars, hvars, dvars, vvars, gvars>>

\* The holdings attribute is the caller's list, a public and mutable
\* attribute: the three changes a holder of the object can make to it.
AddHolding ==
    /\ p_pc = "built"
    /\ mutations < MaxMutations
    /\ Len(p_holdings) < MaxPortHoldings
    /\ \E h \in HoldingObjects : p_holdings' = Append(p_holdings, h)
    /\ mutations' = mutations + 1
    /\ UNCHANGED <<p_pc, portfolio_total, portfolio_yeild>>
    /\ UNCHANGED <<rvars, hvars, dvars, vvars, gvars>>

RemoveHolding ==
    /\ p_pc = "built"
    /\ mutations < MaxMutations
    /\ \E k \in 1..Len(p_holdings) :
         p_holdings' = SubSeq(p_holdings, 1, k - 1)
                         \o SubSeq(p_holdings, k + 1, Len(p_holdings))
    /\ mutations' = mutations + 1
    /\ UNCHANGED <<p_pc, portfolio_total, portfolio_yeild>>
    /\ UNCHANGED <<rvars, hvars, dvars, vvars, gvars>>

ReplaceHolding ==
    /\ p_pc = "built"
    /\ mutations < MaxMutations
    /\ \E k \in 1..Len(p_holdings), h \in HoldingObjects :
         /\ h # p_holdings[k]
         /\ p_holdings' = [p_holdings EXCEPT ![k] = h]
    /\ mutations' = mutations + 1
    /\ UNCHANGED <<p_pc, portfolio_total, portfolio_yeild>>
    /\ UNCHANGED <<rvars, hvars, dvars, vvars, gvars>>

(***************************************************************************)
(* calculate_delta                                                         *)
(***************************************************************************)
MaxVal == 1           \* a statement cell holds 0..MaxVal
QuarterlyRows == 5    \* get_income_statement(period="quarterly", last=5)

DeltaCols == {"totalRevenue", "netIncome"}
Periods == {"annual", "quarterly", "monthly"}
\* "int64": the cells are numpy scalars; "object": they are Python ints
Dtypes == {"int64", "object"}

StatementRows == [DeltaCols -> 0..MaxVal]
Statements == SeqsUpTo(StatementRows, QuarterlyRows)

Outcome(kind, n, d, err) == [kind |-> kind, num |-> n, den |-> d, err |-> err]
Raises(err) == Outcome("raise", 0, 1, err)
NoOutcome == Outcome("none", 0, 1, "")

\* the quotient x / y of two cells: numpy's scalars divide by zero to inf,
\* -inf or nan with a RuntimeWarning, Python's ints raise
Divide(x, y, dt) ==
    IF y # 0 THEN Outcome("value", x, y, "")
    ELSE IF dt = "object" THEN Raises("ZeroDivisionError")
    ELSE IF x > 0 THEN Outcome("inf", 0, 1, "")
    ELSE IF x < 0 THEN Outcome("-inf", 0, 1, "")
    ELSE Outcome("nan", 0, 1, "")

\* x * 100.0 on a quotient; inf, -inf and nan are kept
Times100(q) == IF q.kind = "value" THEN [q EXCEPT !.num = @ * 100] ELSE q

\* utils.py:134-137 with the quarterly row one year too near
PreviousRowAdjacent(per) ==
    IF per = "annual" THEN <<1>>
    ELSE IF per = "quarterly" THEN <<1>>
    ELSE <<>>

\* utils.py:134-137: <<>> when neither branch binds `previous`
PreviousRow(per) ==
    IF per = "annual" THEN <<1>>
    ELSE IF per = "quarterly" THEN <<4>>
    ELSE <<>>

\* utils.py:133-142; rows are 0-based in the code, 1-based here
calculate_delta(d, k, per, dt) ==
    LET prv == PreviousRow(per) IN
    IF prv = <<>> THEN Raises("UnboundLocalError")
    ELSE IF Len(d) < 1 THEN Raises("IndexError")
    ELSE IF k \notin DOMAIN d[1] THEN Raises("KeyError")
    ELSE IF Len(d) < prv[1] + 1 THEN Raises("IndexError")
    ELSE Times100(Divide(d[1][k] - d[prv[1] + 1][k], d[prv[1] + 1][k], dt))

DeltaIdle ==
    /\ df = <<>>
    /\ kpi = "totalRevenue"
    /\ period = "annual"
    /\ dtype = "int64"
    /\ d_pc = "idle"
    /\ growth_rate = NoOutcome

\* one call of calculate_delta(df, kpi, period)
CallCalculateDelta ==
    /\ d_pc = "call"
    /\ d_pc' = "done"
    /\ growth_rate' = calculate_delta(df, kpi, period, dtype)
    /\ UNCHANGED <<df, kpi, period, dtype>>
    /\ UNCHANGED <<rvars, hvars, pvars, vvars, gvars>>

(***************************************************************************)
(* get_volatility                                                          *)
(*                                                                         *)
(* The columns the window's open, close and return depend on; the          *)
(* describe() statistics and low/high are computed per ticker from other   *)
(* columns and do not enter them.  The input is not empty.                 *)
(***************************************************************************)
MaxObs == 3           \* rows of price_action_df
MaxDate == 2          \* dates are 1..MaxDate

VolTickers == <<"X", "Y">>     \* in groupby's (sorted) order
VolPrices == {1, 2}

Observations ==
    [ticker : {VolTickers[k] : k \in DOMAIN VolTickers}, date : 1..MaxDate,
     open : VolPrices, close : VolPrices]
PriceActions == SeqsUpTo(Observations, MaxObs) \ {<<>>}

MinDate(obs) ==
    CHOOSE d \in {obs[k].date : k \in DOMAIN obs} :
        \A k \in DOMAIN obs : d <= obs[k].date
MaxDateOf(obs) ==
    CHOOSE d \in {obs[k].date : k \in DOMAIN obs} :
        \A k \in DOMAIN obs : d >= obs[k].date

\* utils.py:107-110: the rows at a date, for one ticker, in input order
RowsAt(obs, t, d) == SelectSeq(obs, LAMBDA o : o.ticker = t /\ o.date = d)

\* a left join's cells for one key: the matches, or one missing cell (NaN)
Joined(cells) ==
    IF cells = <<>> THEN << <<>> >> ELSE [k \in DOMAIN cells |-> <<cells[k]>>]

\* utils.py:114 on one row; a missing cell makes the result NaN
ReturnOf(o, c) ==
    IF o = <<>> \/ c = <<>> THEN Outcome("nan", 0, 1, "")
    ELSE Divide(c[1] - o[1], o[1], "float64")

\* the summary rows of one ticker: every match of the first join with
\* every match of the second
TickerRows(obs, t) ==
    LET start == MinDate(obs)
        end == MaxDateOf(obs)
        atStart == RowsAt(obs, t, start)
        atEnd == RowsAt(obs, t, end)
        opens == Joined([k \in DOMAIN atStart |-> atStart[k].open])
        closes == Joined([k \in DOMAIN atEnd |-> atEnd[k].close])
    IN [n \in 1..(Len(opens) * Len(closes)) |->
          LET o == opens[((n - 1) \div Len(closes)) + 1]
              c == closes[((n - 1) % Len(closes)) + 1]
          IN [ticker |-> t, start |-> start, end |-> end,
              open |-> o, close |-> c, return |-> ReturnOf(o, c)]]

RECURSIVE GroupRows(_, _)
GroupRows(obs, ts) ==
    IF ts = <<>> THEN <<>>
    ELSE (IF \E k \in DOMAIN obs : obs[k].ticker = ts[1]
          THEN TickerRows(obs, ts[1]) ELSE <<>>)
         \o GroupRows(obs, Tail(ts))

\* utils.py:95-118
get_volatility(obs) == [raised |-> "", rows |-> GroupRows(obs, VolTickers)]

VolatilityIdle ==
    /\ price_action_df = <<>>
    /\ v_pc = "idle"
    /\ vol_df = [raised |-> "", rows |-> <<>>]

\* one call of get_volatility(price_action_df)
CallGetVolatility ==
    /\ v_pc = "call"
    /\ v_pc' = "done"
    /\ vol_df' = get_volatility(price_action_df)
    /\ UNCHANGED price_action_df
    /\ UNCHANGED <<rvars, hvars, pvars, dvars, gvars>>

(***************************************************************************)
(* generate_delta_df                                                       *)
(***************************************************************************)
MaxTickers == 3       \* tickers in ticker_list

DeltaTickers == {"A", "B"}
TickerLists == SeqsUpTo(DeltaTickers, MaxTickers)

Kpis ==
    {"totalRevenue", "operatingExpense", "netIncome", "costOfRevenue",
     "sellingGeneralAndAdmin"}

\* utils.py:164-181: the columns of a row after "ticker", in the order the
\* dict literal evaluates them
DeltaColumns ==
    << [name |-> "yoy_rev_delta", kpi |-> "totalRevenue", period |-> "annual"],
       [name |-> "yoy_opex_delta", kpi |-> "operatingExpense",
        period |-> "annual"],
       [name |-> "yoy_ni_delta", kpi |-> "netIncome", period |-> "annual"],
       [name |-> "yoy_cor_delta", kpi |-> "costOfRevenue",
        period |-> "annual"],
       [name |-> "yoy_sgna_delta", kpi |-> "sellingGeneralAndAdmin",
        period |-> "annual"],
       [name |-> "qoq_rev_delta", kpi |-> "totalRevenue",
        period |-> "quarterly"],
       [name |-> "qoq_opex_delta", kpi |-> "operatingExpense",
        period |-> "quarterly"],
       [name |-> "qoq_ni_delta", kpi |-> "netIncome", period |-> "quarterly"],
       [name |-> "qoq_cor_delta", kpi |-> "costOfRevenue",
        period |-> "quarterly"],
       [name |-> "qoq_sgna_delta", kpi |-> "sellingGeneralAndAdmin",
        period |-> "quarterly"] >>

\* What the statement provider may answer: a statement row with every KPI
\* at v, and statements of the asked length, one row short, or with a zero
\* in the previous period.
StatementRow(v) == [c \in Kpis |-> v]
AnnualStatements ==
    { <<StatementRow(2), StatementRow(1)>>,
      <<StatementRow(1), StatementRow(0)>>,
      <<StatementRow(1)>> }
QuarterlyStatements ==
    { <<StatementRow(3), StatementRow(1), StatementRow(1), StatementRow(1),
        StatementRow(2)>>,
      <<StatementRow(3), StatementRow(1), StatementRow(1), StatementRow(1)>> }

\* utils.py:164-181: the row of one ticker
DeltaRow(t, ann_inc, qt_inc, dt) ==
    [ticker |-> t,
     deltas |-> [n \in DOMAIN DeltaColumns |->
                   calculate_delta(
                     IF DeltaColumns[n].period = "annual"
                     THEN ann_inc ELSE qt_inc,
                     DeltaColumns[n].kpi, DeltaColumns[n].period, dt)]]

\* the exception of the first column that raises, "" when none does
FirstRaised(row) ==
    LET bad == {n \in DOMAIN row.deltas : row.deltas[n].kind = "raise"} IN
    IF bad = {} THEN ""
    ELSE row.deltas[CHOOSE n \in bad : \A m \in bad : n <= m].err

\* the row put in front of the accumulated rows
PrependRow(rows, row) == <<row>> \o rows

\* utils.py:183: delta_df.append(row, ignore_index=True)
AppendRow(rows, row) == Append(rows, row)

DeltaDfIdle ==
    /\ ticker_list = <<>>
    /\ g_i = 0
    /\ g_pc = "idle"
    /\ g_err = ""
    /\ delta_df = <<>>

\* utils.py:156-183: one iteration of the for loop.  Stock(ticker) and
\* get_income_statement are the external provider: they raise, or answer
\* with statements.
DeltaStep ==
    /\ g_pc = "loop"
    /\ g_i < Len(ticker_list)
    /\ \/ /\ g_pc' = "raise"
          /\ g_err' = "ProviderError"
          /\ UNCHANGED <<g_i, delta_df>>
       \/ \E ann_inc \in AnnualStatements, qt_inc \in QuarterlyStatements :
            LET row == DeltaRow(ticker_list[g_i + 1], ann_inc, qt_inc, dtype)
            IN IF FirstRaised(row) # ""
               THEN /\ g_pc' = "raise"
                    /\ g_err' = FirstRaised(row)
                    /\ UNCHANGED <<g_i, delta_df>>
               ELSE /\ delta_df' = AppendRow(delta_df, row)
                    /\ g_i' = g_i + 1
                    /\ UNCHANGED <<g_pc, g_err>>
    /\ UNCHANGED ticker_list
    /\ UNCHANGED <<rvars, hvars, pvars, dvars, vvars>>

\* utils.py:185: the loop is exhausted and delta_df is returned
DeltaReturn ==
    /\ g_pc = "loop"
    /\ g_i = Len(ticker_list)
    /\ g_pc' = "return"
    /\ UNCHANGED <<ticker_list, g_i, g_err, delta_df>>
    /\ UNCHANGED <<rvars, hvars, pvars, dvars, vvars>>

(***************************************************************************)
(* Specifications: one per operation, each from the state in which the     *)
(* operation is about to run on arguments drawn from the bounded sets.     *)
(***************************************************************************)
InitResolver ==
    /\ COIN_LIST \in Catalogs
    /\ ticker \in TickerPool
    /\ variant \in Variants
    /\ rpc = "call"
    /\ token_list = <<>>
    /\ token_info = <<>>
    /\ success = FALSE
    /\ raised = ""
    /\ calls = 0
    /\ prev = <<>>
    /\ HoldingsIdle /\ PortfolioIdle /\ DeltaIdle /\ VolatilityIdle
    /\ DeltaDfIdle

NextResolver == CallGetTokenInfo \/ CallAgain

SpecResolver == InitResolver /\ [][NextResolver]_vars

InitHoldings ==
    /\ COIN_LIST \in SeqsUpTo(Entries, MaxHoldCatalog)
    /\ ticker = <<>>
    /\ variant = "interest"
    /\ rpc = "idle"
    /\ token_list = <<>>
    /\ token_info = <<>>
    /\ success = FALSE
    /\ raised = ""
    /\ calls = 0
    /\ prev = <<>>
    /\ holdings \in HoldingInputs
    /\ h_i = 0
    /\ h_pc = "loop"
    /\ h_err = ""
    /\ lookups = <<>>
    /\ PortfolioIdle /\ DeltaIdle /\ VolatilityIdle /\ DeltaDfIdle

NextHoldings == LoadStep \/ LoadReturn

SpecHoldings == InitHoldings /\ [][NextHoldings]_vars

InitPortfolio ==
    /\ p_pc = "new"
    /\ p_holdings \in SeqsUpTo(HoldingObjects, MaxPortHoldings)
    /\ portfolio_total = 0
    /\ portfolio_yeild = calculate_portfolio_yield(<<>>)
    /\ mutations = 0
    /\ ResolverIdle /\ HoldingsIdle /\ DeltaIdle /\ VolatilityIdle
    /\ DeltaDfIdle

NextPortfolio ==
    Portfolio_init \/ AddHolding \/ RemoveHolding \/ ReplaceHolding

SpecPortfolio == InitPortfolio /\ [][NextPortfolio]_vars

InitDelta ==
    /\ df \in Statements
    /\ kpi \in DeltaCols
    /\ period \in Periods
    /\ dtype \in Dtypes
    /\ d_pc = "call"
    /\ growth_rate = NoOutcome
    /\ ResolverIdle /\ HoldingsIdle /\ PortfolioIdle /\ VolatilityIdle
    /\ DeltaDfIdle

NextDelta == CallCalculateDelta

SpecDelta == InitDelta /\ [][NextDelta]_vars

InitVolatility ==
    /\ price_action_df \in PriceActions
    /\ v_pc = "call"
    /\ vol_df = [raised |-> "", rows |-> <<>>]
    /\ ResolverIdle /\ HoldingsIdle /\ PortfolioIdle /\ DeltaIdle
    /\ DeltaDfIdle

NextVolatility == CallGetVolatility

SpecVolatility == InitVolatility /\ [][NextVolatility]_vars

InitDeltaDf ==
    /\ ticker_list \in TickerLists
    /\ g_i = 0
    /\ g_pc = "loop"
    /\ g_err = ""
    /\ delta_df = <<>>
    /\ df = <<>>
    /\ kpi = "totalRevenue"
    /\ period = "annual"
    /\ dtype \in Dtypes
    /\ d_pc = "idle"
    /\ growth_rate = NoOutcome
    /\ ResolverIdle /\ HoldingsIdle /\ PortfolioIdle /\ VolatilityIdle

NextDeltaDf == DeltaStep \/ DeltaReturn

SpecDeltaDf == InitDeltaDf /\ [][NextDeltaDf]_vars

Init ==
    \/ InitResolver
    \/ InitHoldings
    \/ InitPortfolio
    \/ InitDelta
    \/ InitVolatility
    \/ InitDeltaDf

Next ==
    \/ NextResolver
    \/ NextHoldings
    \/ NextPortfolio
    \/ NextDelta
    \/ NextVolatility
    \/ NextDeltaDf

Spec == Init /\ [][Next]_vars

(***************************************************************************)
(* Properties of get_token_info                                            *)
(***************************************************************************)
\* the catalog positions the filter keeps, stated on the catalog itself
MatchPositions ==
    {j \in DOMAIN COIN_LIST : COIN_LIST[j].symbol = Lower(ticker)}

\* the candidates the scan steps over
MarkedPositions ==
    {j \in MatchPositions :
        IF variant = "interest"
        THEN Contains(TOKEN, COIN_LIST[j].id)
        ELSE /\ ~Contains(GOVERNANCE, COIN_LIST[j].id)
             /\ Contains(HYPHEN, COIN_LIST[j].id)}

First(S) == CHOOSE j \in S : \A m \in S : j <= m
Last(S) == CHOOSE j \in S : \A m \in S : j >= m

\* C1: with two or more matches, all of them excluded, the call returns the
\* last match in catalog order with success = TRUE and raises nothing.
C1_AllExcludedReturnsLast ==
    (/\ rpc = "done"
     /\ Cardinality(MatchPositions) >= 2
     /\ MarkedPositions = MatchPositions)
    => /\ raised = ""
       /\ success = TRUE
       /\ token_info = <<COIN_LIST[Last(MatchPositions)]>>

\* C2: with two or more matches, not all excluded, the call returns the
\* first match in catalog order that is not excluded.
C2_FirstNotExcluded ==
    (/\ rpc = "done"
     /\ Cardinality(MatchPositions) >= 2
     /\ MarkedPositions # MatchPositions)
    => /\ raised = ""
       /\ success = TRUE
       /\ token_info =
            <<COIN_LIST[First(MatchPositions \ MarkedPositions)]>>

\* C2's case: the accepted candidate is not the first match
C2_Witness ==
    /\ rpc = "done"
    /\ Cardinality(MatchPositions) >= 3
    /\ MarkedPositions # MatchPositions
    /\ First(MatchPositions) \in MarkedPositions
    /\ raised = ""
    /\ token_info # <<>>
    /\ ~Contains(TOKEN, token_info[1].id)

\* C3 as stated: an entry is kept exactly when its symbol equals the ticker
\* ignoring the case of both.
C3_MatchIgnoresCaseOfBoth ==
    rpc = "done"
    => token_list =
         SelectSeq(COIN_LIST, LAMBDA e : Lower(e.symbol) = Lower(ticker))

\* C3 amended: an entry is kept exactly when its symbol, as the catalog
\* writes it, equals the lower-cased ticker; so the ticker's case is
\* ignored, and for a symbol written in lower case the match is equality
\* ignoring case.
C3_MatchIgnoresCaseOfTicker ==
    rpc = "done"
    => /\ token_list =
            SelectSeq(COIN_LIST, LAMBDA e : e.symbol = Lower(ticker))
       /\ \A j \in DOMAIN COIN_LIST :
            COIN_LIST[j].symbol = Lower(COIN_LIST[j].symbol)
            => ((\E k \in DOMAIN token_list : token_list[k] = COIN_LIST[j])
                <=> Lower(COIN_LIST[j].symbol) = Lower(ticker))

\* C3's case: a ticker written with an upper-case letter has matches
C3_Witness ==
    /\ rpc = "done"
    /\ ticker # Lower(ticker)
    /\ token_list # <<>>
    /\ Len(token_list) < Len(COIN_LIST)

\* C4: with exactly one match the call returns that entry with
\* success = TRUE, excluded or not, and a second call with the same ticker
\* and catalog returns the same.
C4_UniqueMatchReturned ==
    (rpc = "done" /\ Cardinality(MatchPositions) = 1)
    => /\ raised = ""
       /\ success = TRUE
       /\ token_info = <<COIN_LIST[First(MatchPositions)]>>
       /\ calls >= 2
          => prev = <<[token_info |-> token_info, success |-> success,
                       raised |-> raised]>>

\* C4's case: the unique match is an excluded one, returned twice
C4_Witness ==
    /\ rpc = "done"
    /\ calls = 2
    /\ Cardinality(MatchPositions) = 1
    /\ MarkedPositions = MatchPositions
    /\ Len(COIN_LIST) > 1
    /\ token_info = <<COIN_LIST[First(MatchPositions)]>>

(***************************************************************************)
(* Properties of load_holdings                                             *)
(***************************************************************************)
\* the holdings whose ticker has no catalog match
UnresolvedHoldings ==
    {k \in DOMAIN holdings :
        ~\E j \in DOMAIN COIN_LIST :
            COIN_LIST[j].symbol = Lower(holdings[k].ticker)}

\* C5: an unresolved holding is never valued: nothing is written to it, no
\* price is looked up for it, the loop never passes it, load_holdings never
\* returns, and when the loop stops at it the error is the KeyError of
\* token_info["id"].
C5_UnresolvedHoldingFails ==
    \A k \in UnresolvedHoldings :
        /\ holdings[k].keys = {"ticker", "quantity"}
        /\ h_i < k
        /\ Len(lookups) < k
        /\ h_pc # "return"
        /\ (h_pc = "raise" /\ h_i = k - 1) => h_err = "KeyError:id"

\* C5's case: one holding is valued, the next is unresolved and fails
C5_Witness ==
    /\ h_pc = "raise"
    /\ h_err = "KeyError:id"
    /\ h_i = 1
    /\ 2 \in UnresolvedHoldings
    /\ Len(lookups) = 1
    /\ "total" \in holdings[1].keys

(***************************************************************************)
(* Properties of Portfolio                                                 *)
(***************************************************************************)
DerivedFromHoldings ==
    /\ portfolio_total = SumTotal(p_holdings)
    /\ portfolio_yeild.one_year_yield = SumAnnualYield(p_holdings)
    /\ portfolio_yeild.one_day_yield.num
         = portfolio_yeild.one_year_yield
    /\ portfolio_yeild.one_day_yield.den = 365

ComparedRow == IF period = "annual" THEN 1 ELSE 4

DeltaDefined ==
    /\ d_pc = "done"
    /\ period \in {"annual", "quarterly"}
    /\ Len(df) >= ComparedRow + 1

\* C7: when the previous-period value is 0 the call raises
\* ZeroDivisionError and returns no value.
C7_ZeroPreviousRaises ==
    (DeltaDefined /\ df[ComparedRow + 1][kpi] = 0)
    => /\ growth_rate.kind = "raise"
       /\ growth_rate.err = "ZeroDivisionError"

\* the statements that differ from df in one cell, the cell being neither
\* row 0 nor the compared row of the kpi column
ChangedElsewhere ==
    {[df EXCEPT ![r][c] = v] :
        r \in DOMAIN df, c \in DeltaCols, v \in 0..MaxVal} \
    {d \in Statements :
        \/ d[1][kpi] # df[1][kpi]
        \/ d[ComparedRow + 1][kpi] # df[ComparedRow + 1][kpi]}

\* C8: with a non-zero previous value the result is
\* (rows[0][kpi] - rows[p][kpi]) / rows[p][kpi] * 100, p = 1 for annual and
\* 4 for quarterly, and changing any other cell leaves it as it is.
C8_DeltaFormula ==
    (DeltaDefined /\ df[ComparedRow + 1][kpi] # 0)
    => /\ growth_rate.kind = "value"
       /\ growth_rate.den # 0
       /\ growth_rate.num * df[ComparedRow + 1][kpi]
            = (df[1][kpi] - df[ComparedRow + 1][kpi]) * 100 * growth_rate.den
       /\ \A d \in ChangedElsewhere :
            calculate_delta(d, kpi, period, dtype) = growth_rate

\* C8's case: a quarterly delta whose adjacent row differs from the
\* compared one
C8_Witness ==
    /\ DeltaDefined
    /\ period = "quarterly"
    /\ df[5][kpi] # 0
    /\ df[2][kpi] # df[5][kpi]
    /\ df[1][kpi] # df[5][kpi]
    /\ growth_rate.kind = "value"
    /\ growth_rate.num # 0

(***************************************************************************)
(* Properties of get_volatility                                            *)
(***************************************************************************)
TickersOf(obs) == {obs[k].ticker : k \in DOMAIN obs}

\* the tickers with no observation at the first or the last date of the
\* whole input
MissingBoundary(obs) ==
    {t \in TickersOf(obs) :
        \/ ~\E k \in DOMAIN obs :
              /\ obs[k].ticker = t
              /\ \A m \in DOMAIN obs : obs[k].date <= obs[m].date
        \/ ~\E k \in DOMAIN obs :
              /\ obs[k].ticker = t
              /\ \A m \in DOMAIN obs : obs[k].date >= obs[m].date}

\* C9: start and end are the least and the greatest date of the whole
\* input, and when a ticker has no observation at one of them the call
\* raises and returns no summary.
C9_MissingBoundaryRaises ==
    v_pc = "done"
    => /\ \A n \in DOMAIN vol_df.rows :
            /\ \A k \in DOMAIN price_action_df :
                 /\ vol_df.rows[n].start <= price_action_df[k].date
                 /\ vol_df.rows[n].end >= price_action_df[k].date
       /\ MissingBoundary(price_action_df) # {} => vol_df.raised # ""

(***************************************************************************)
(* Properties of generate_delta_df                                         *)
(***************************************************************************)
\* C10: after every iteration the accumulated rows are the tickers
\* processed so far, in order; a returned result has one row per input
\* ticker in the input's order; a failure ends the call with the exception
\* and without a result.
C10_RowsFollowTickerList ==
    /\ g_pc \in {"loop", "return"}
       => /\ Len(delta_df) = g_i
          /\ g_i <= Len(ticker_list)
          /\ \A k \in 1..Len(delta_df) :
               delta_df[k].ticker = ticker_list[k]
          /\ g_err = ""
    /\ g_pc = "return" => Len(delta_df) = Len(ticker_list)
    /\ g_pc = "raise" => g_err # ""

\* C10's case: a result returned for a list with a repeated ticker and two
\* different ones
C10_Witness ==
    /\ g_pc = "return"
    /\ Len(ticker_list) = 3
    /\ ticker_list[1] = ticker_list[3]
    /\ ticker_list[1] # ticker_list[2]
    /\ Len(delta_df) = 3

====
